---- MODULE Spec2Model ----
(***************************************************************************)
(* Model of the ledger-based CFM crawl execution engine:                   *)
(*   src/src/cfm/crawler.py        (_fetch_batch, crawl_state,             *)
(*                                  run_execution)                         *)
(*   src/src/cfm/db/executions.py  (executions, states, page ledger)       *)
(*   src/src/cfm/db/doctors.py     (doctor upsert)                         *)
(*   src/src/cfm/db/captcha.py     (token store)                           *)
(*   src/src/cfm/cli.py            (run / cancel / count sub-commands)     *)
(*   src/src/cfm/db/state_counts.py (count snapshot)                       *)
(*   src/src/cfm_crawler/use_cases/count_doctors.py, services/cfm_api.py   *)
(*                                 (the count of the cfm-crawler program)  *)
(*   src/src/cfm_crawler/use_cases/crawl_all_doctors.py                    *)
(*                                 (the crawl of the cfm-crawler program)  *)
(***************************************************************************)
EXTENDS Integers, Sequences, FiniteSets, Bags, TLC

VARIABLES
    crawl_executions,        \* the Execution row: [status]
    crawl_execution_states,  \* region -> [status, total_pages, total_records]
    crawl_pages,             \* region -> (page_number -> [status, records_count, error])
    doctors,                 \* bag of rows [crm, state, name] of table doctors
    state_counts,            \* region -> [api_total, db_total, missing] of table state_counts
    captcha_tokens,          \* set of token ids whose expires_at is in the future
    remoteTotal,             \* region -> number of records the portal holds
    page_size,               \* crawl_executions.page_size
    batch_size,              \* crawl_executions.batch_size
    max_results,             \* settings.max_results
    pc,                      \* position of the running process
    re,                      \* frame of run_execution
    cs,                      \* frame of crawl_state
    fb,                      \* frame of _fetch_batch (with the requests sent per page
                             \* and the largest number of requests in flight)
    exc,                     \* exception in flight / last raised ("" = none)
    uc,                      \* frame of CrawlAllDoctorsUseCase._crawl_state
    hist,                    \* observation of the current run (not program state)
    budget,                  \* how often the environment has interfered so far
    lastOp,                  \* last ledger / storage operation applied directly
    lastArg,                 \* its argument
    lastRet,                 \* its return value
    prevArg                  \* argument of the call before it (same operation)

vars == <<crawl_executions, crawl_execution_states, crawl_pages, doctors,
          state_counts, captcha_tokens, remoteTotal, page_size, batch_size, max_results,
          pc, re, cs, fb, exc, uc, hist, budget, lastOp, lastArg, lastRet, prevArg>>

dbVars == <<crawl_executions, crawl_execution_states, crawl_pages, doctors>>
cfgVars == <<page_size, batch_size, max_results>>
procVars == <<pc, re, cs, fb, exc, hist>>
callVars == <<lastOp, lastArg, lastRet, prevArg>>

(***************************************************************************)
(* Bounds of the model                                                     *)
(***************************************************************************)
MaxPages == 3        \* page numbers used when the ledger is driven directly
MaxCrm == 1          \* registration numbers used when storage is driven directly
MaxName == 2         \* values of the non-key fields of a doctor row
MaxBatch == 2        \* rows per upsert batch when storage is driven directly

Null == -1           \* SQL NULL / Python None of an integer value
Regions == {"AA", "BB"}

Min(a, b) == IF a < b THEN a ELSE b
Max(a, b) == IF a > b THEN a ELSE b

(***************************************************************************)
(* Status vocabularies (db/executions.py)                                  *)
(***************************************************************************)
EXECUTION_STATUSES == {"pending", "running", "paused", "completed", "cancelled", "failed"}
STATE_STATUSES == {"pending", "running", "completed", "failed", "skipped"}
PAGE_STATUSES == {"pending", "fetched", "failed"}

(***************************************************************************)
(* Page ledger (table crawl_pages of one execution state)                  *)
(***************************************************************************)
PageRow(st, rc, err) == [status |-> st, records_count |-> rc, error |-> err]

\* a variant that resets the rows it finds (ON CONFLICT DO UPDATE)
initialize_pages_reset(pg, n) ==
    IF n <= 0
    THEN [ledger |-> pg, inserted |-> 0]
    ELSE [ledger |-> [p \in (DOMAIN pg) \cup (1..n) |->
                        IF p \in 1..n THEN PageRow("pending", Null, "NULL") ELSE pg[p]],
          inserted |-> n]

\* INSERT ... SELECT generate_series(1, n) ON CONFLICT DO NOTHING
initialize_pages(pg, n) ==
    IF n <= 0
    THEN [ledger |-> pg, inserted |-> 0]
    ELSE LET new == (1..n) \ DOMAIN pg
         IN [ledger |-> [p \in (DOMAIN pg) \cup new |->
                           IF p \in DOMAIN pg THEN pg[p]
                           ELSE PageRow("pending", Null, "NULL")],
             inserted |-> Cardinality(new)]

RECURSIVE OrderByPageNumber(_)
OrderByPageNumber(S) ==
    IF S = {} THEN <<>>
    ELSE LET m == CHOOSE x \in S : \A y \in S : x <= y
         IN <<m>> \o OrderByPageNumber(S \ {m})

\* a variant that returns the pages of every status
get_pending_pages_any_status(pg, limit) ==
    LET rows == OrderByPageNumber(DOMAIN pg)
    IN IF limit = Null THEN rows
       ELSE SubSeq(rows, 1, Min(limit, Len(rows)))

\* a variant that forgets the failed pages
get_pending_pages_only_pending(pg, limit) ==
    LET rows == OrderByPageNumber({p \in DOMAIN pg : pg[p].status = "pending"})
    IN IF limit = Null THEN rows
       ELSE SubSeq(rows, 1, Min(limit, Len(rows)))

\* SELECT page_number WHERE status IN ('pending','failed') ORDER BY page_number [LIMIT n]
get_pending_pages(pg, limit) ==
    LET rows == OrderByPageNumber({p \in DOMAIN pg : pg[p].status \in {"pending", "failed"}})
    IN IF limit = Null THEN rows
       ELSE SubSeq(rows, 1, Min(limit, Len(rows)))

\* a variant that stores the error and leaves the status
mark_page_failed_keeps_status(pg, pn, error) ==
    [p \in DOMAIN pg |-> IF p = pn THEN [pg[p] EXCEPT !.error = error] ELSE pg[p]]

\* UPDATE crawl_pages SET status='failed', error=$3 WHERE page_number=$2
mark_page_failed(pg, pn, error) ==
    [p \in DOMAIN pg |-> IF p = pn THEN [pg[p] EXCEPT !.status = "failed", !.error = error]
                         ELSE pg[p]]

\* one UPDATE of mark_pages_fetched_batch's executemany
mark_page_fetched(pg, pn, rc) ==
    [p \in DOMAIN pg |-> IF p = pn THEN PageRow("fetched", rc, "NULL") ELSE pg[p]]

\* a variant that leaves the ledger as it is
mark_pages_fetched_batch_none(pg, batch) == pg

RECURSIVE mark_pages_fetched_batch(_, _)
mark_pages_fetched_batch(pg, batch) ==
    IF batch = <<>> THEN pg
    ELSE mark_pages_fetched_batch(mark_page_fetched(pg, Head(batch)[1], Head(batch)[2]),
                                  Tail(batch))

\* a variant that only looks for pending pages
check_state_complete_no_pending(pg) ==
    LET total == Cardinality(DOMAIN pg)
        pending == Cardinality({p \in DOMAIN pg : pg[p].status = "pending"})
    IN total > 0 /\ pending = 0

\* a variant without the total > 0 test
check_state_complete_no_total(pg) ==
    Cardinality(DOMAIN pg) = Cardinality({p \in DOMAIN pg : pg[p].status = "fetched"})

\* total > 0 and total == fetched  (COUNT(*) and COUNT(*) FILTER (status='fetched'))
check_state_complete(pg) ==
    LET total == Cardinality(DOMAIN pg)
        fetched == Cardinality({p \in DOMAIN pg : pg[p].status = "fetched"})
    IN total > 0 /\ total = fetched

\* a variant that is satisfied by one finished state
check_execution_complete_any(sts) ==
    Cardinality({r \in DOMAIN sts : sts[r].status \in {"completed", "skipped"}}) > 0

\* total > 0 and total == done over the states of the execution
check_execution_complete(sts) ==
    LET total == Cardinality(DOMAIN sts)
        done == Cardinality({r \in DOMAIN sts : sts[r].status \in {"completed", "skipped"}})
    IN total > 0 /\ total = done

\* states still to be processed, ORDER BY state
RECURSIVE OrderByState(_)
OrderByState(S) ==
    IF S = {} THEN <<>>
    ELSE LET m == IF "AA" \in S THEN "AA" ELSE CHOOSE x \in S : TRUE
         IN <<m>> \o OrderByState(S \ {m})

\* a variant that returns every state of the execution
get_pending_states_every_state(sts) == OrderByState(DOMAIN sts)

\* SELECT ... WHERE status NOT IN ('completed', 'skipped') ORDER BY state
get_pending_states(sts) ==
    OrderByState({r \in DOMAIN sts : sts[r].status \notin {"completed", "skipped"}})

(***************************************************************************)
(* Doctor storage (table doctors, unique on (crm, state))                  *)
(***************************************************************************)
Doc(crm, state, name) == [crm |-> crm, state |-> state, name |-> name]
Key(row) == <<row.crm, row.state>>

\* a variant without the ON CONFLICT clause
UPSERT_SQL_plain_insert(tbl, row) == tbl (+) SetToBag({row})

\* INSERT ... ON CONFLICT (crm, state) DO UPDATE SET <every non-key column>
UPSERT_SQL(tbl, row) ==
    LET hit == {x \in BagToSet(tbl) : Key(x) = Key(row)}
    IN IF hit = {} THEN tbl (+) SetToBag({row})
       ELSE LET kept == [x \in BagToSet(tbl) \ hit |-> tbl[x]]
                n == BagCardinality([x \in hit |-> tbl[x]])
            IN kept (+) [x \in {row} |-> n]

RECURSIVE upsert_doctors_batch(_, _)
upsert_doctors_batch(tbl, docs) ==
    IF docs = <<>> THEN tbl
    ELSE upsert_doctors_batch(UPSERT_SQL(tbl, Head(docs)), Tail(docs))

KeySet(docs) == {Key(docs[i]) : i \in 1..Len(docs)}
\* the row of the batch that is applied last for key k
LastRow(docs, k) ==
    docs[CHOOSE i \in 1..Len(docs) :
            /\ Key(docs[i]) = k
            /\ \A j \in (i+1)..Len(docs) : Key(docs[j]) # k]
RowsOfKey(tbl, k) == BagCardinality([x \in {y \in BagToSet(tbl) : Key(y) = k} |-> tbl[x]])

(***************************************************************************)
(* Initial state: an execution created by create_execution, nothing run    *)
(***************************************************************************)
NoFrame == [active |-> FALSE]
NoCall == [active |-> FALSE, pc |-> "idle"]

InitDb ==
    /\ crawl_executions = [status |-> "pending"]
    /\ crawl_execution_states =
         [r \in Regions |-> [status |-> "pending", total_pages |-> Null, total_records |-> Null]]
    /\ crawl_pages = [r \in Regions |-> <<>>]
    /\ doctors = EmptyBag
    /\ state_counts = <<>>

InitIdle ==
    /\ pc = "idle"
    /\ re = NoFrame
    /\ cs = NoFrame
    /\ fb = NoFrame
    /\ exc = ""
    /\ uc = NoCall
    /\ hist = [crawled |-> <<>>, yields |-> <<>>, clean |-> TRUE,
               tokenFailed |-> FALSE, late |-> {}, wholeFails |-> 0, known |-> FALSE]
    /\ budget = [events |-> 0, run |-> 0]

InitCalls ==
    /\ lastOp = "none"
    /\ lastArg = Null
    /\ lastRet = Null
    /\ prevArg = Null

(***************************************************************************)
(* The page ledger driven directly: any order of ledger operations on the  *)
(* ledger of region AA.                                                    *)
(***************************************************************************)
Ledger == crawl_pages["AA"]

LedgerFrame ==
    UNCHANGED <<crawl_executions, doctors, state_counts, captcha_tokens, remoteTotal,
                cfgVars, procVars, uc, budget>>

LInitializePages ==
    \E n \in 0..MaxPages :
        LET r == initialize_pages(Ledger, n)
        IN /\ crawl_pages' = [crawl_pages EXCEPT !["AA"] = r.ledger]
           /\ lastOp' = "initialize_pages"
           /\ lastArg' = n
           /\ lastRet' = r.inserted
           /\ prevArg' = IF lastOp = "initialize_pages" THEN lastArg ELSE Null
           /\ UNCHANGED crawl_execution_states
           /\ LedgerFrame

LGetPendingPages ==
    \E limit \in {Null} \cup (0..MaxPages) :
        /\ lastOp' = "get_pending_pages"
        /\ lastArg' = limit
        /\ lastRet' = get_pending_pages(Ledger, limit)
        /\ prevArg' = Null
        /\ UNCHANGED <<crawl_pages, crawl_execution_states>>
        /\ LedgerFrame

LMarkPagesFetchedBatch ==
    \E S \in SUBSET (1..MaxPages), rc \in 1..1 :
        /\ S # {}
        /\ Cardinality(S) <= MaxBatch
        /\ LET ps == OrderByPageNumber(S)
               batch == [i \in 1..Len(ps) |-> <<ps[i], rc>>]
           IN /\ crawl_pages' = [crawl_pages EXCEPT !["AA"] = mark_pages_fetched_batch(Ledger, batch)]
              /\ lastArg' = batch
        /\ lastOp' = "mark_pages_fetched_batch"
        /\ lastRet' = Null
        /\ prevArg' = Null
        /\ UNCHANGED crawl_execution_states
        /\ LedgerFrame

LMarkPageFailed ==
    \E pn \in 1..MaxPages :
        /\ crawl_pages' = [crawl_pages EXCEPT !["AA"] = mark_page_failed(Ledger, pn, "Sem resultado no batch")]
        /\ lastOp' = "mark_page_failed"
        /\ lastArg' = pn
        /\ lastRet' = Null
        /\ prevArg' = Null
        /\ UNCHANGED crawl_execution_states
        /\ LedgerFrame

LCheckStateComplete ==
    LET ok == check_state_complete(Ledger)
    IN /\ crawl_execution_states' =
            IF ok THEN [crawl_execution_states EXCEPT !["AA"].status = "completed"]
            ELSE crawl_execution_states
       /\ lastOp' = "check_state_complete"
       /\ lastArg' = Null
       /\ lastRet' = ok
       /\ prevArg' = Null
       /\ UNCHANGED crawl_pages
       /\ LedgerFrame

InitLedger ==
    /\ InitDb
    /\ InitIdle
    /\ InitCalls
    /\ captcha_tokens = {}
    /\ remoteTotal = [r \in Regions |-> 0]
    /\ page_size = 1
    /\ batch_size = MaxBatch
    /\ max_results = 0

NextLedger ==
    \/ LInitializePages
    \/ LGetPendingPages
    \/ LMarkPagesFetchedBatch
    \/ LMarkPageFailed
    \/ LCheckStateComplete

SpecLedger == InitLedger /\ [][NextLedger]_vars

(***************************************************************************)
(* Doctor storage driven directly: any sequence of batch upserts.          *)
(***************************************************************************)
UpsertRows == {Doc(c, s, n) : c \in 1..MaxCrm, s \in Regions, n \in 1..MaxName}
UpsertBatches == UNION {[1..k -> UpsertRows] : k \in 1..MaxBatch}

UUpsertDoctorsBatch ==
    \E docs \in UpsertBatches :
        /\ doctors' = upsert_doctors_batch(doctors, docs)
        /\ lastOp' = "upsert_doctors_batch"
        /\ lastArg' = docs
        /\ lastRet' = Len(docs)
        /\ prevArg' = IF lastOp = "upsert_doctors_batch" THEN KeySet(lastArg) ELSE {}
        /\ UNCHANGED <<crawl_executions, crawl_execution_states, crawl_pages,
                       state_counts, captcha_tokens, remoteTotal, cfgVars, procVars,
                       uc, budget>>

NextUpsert == UUpsertDoctorsBatch

SpecUpsert == InitLedger /\ [][NextUpsert]_vars

(***************************************************************************)
(* The crawl: cli run -> run_execution -> crawl_state -> _fetch_batch,     *)
(* with the environment (token store, portal, operator, process crashes).  *)
(***************************************************************************)
MaxRuns == 2            \* runs of `cfm run` on the execution
MaxEvents == 1          \* interferences of the environment: process kills, cancel,
                        \* token expiry, token store, remote total change
LogLen == 3             \* processed batches remembered by the observation

max_retries == 3
max_empty_batches == 2

\* the executions the model starts from: page_size, batch_size, max_results
\* and the remote totals of the two regions
Scenarios ==
    { [page_size |-> 10, batch_size |-> 2, max_results |-> 0, total |-> [AA |-> 25, BB |-> 0]],
      [page_size |-> 2,  batch_size |-> 2, max_results |-> 3, total |-> [AA |-> 3,  BB |-> 1]] }

CeilDiv(a, b) == (a + b - 1) \div b

\* a variant that tolerates one more empty batch
blocked_after_one_more(consecutive_empty_batches) ==
    consecutive_empty_batches > max_empty_batches

\* crawl_state line 585: consecutive_empty_batches >= max_empty_batches
blocked(consecutive_empty_batches) ==
    consecutive_empty_batches >= max_empty_batches

\* a variant that never finds the token expired
is_valid_always(tokens) == TRUE

\* captcha_db.is_valid / captcha_db.get_token (0 stands for None)
is_valid(tokens) == tokens # {}
get_token(tokens) ==
    IF tokens = {} THEN 0 ELSE CHOOSE t \in tokens : \A u \in tokens : u <= t

\* messages of the RuntimeErrors raised by crawl_state
MsgTokenMissing == "Token do captcha nao encontrado ou expirado! Execute primeiro: uv run cfm token"
MsgTokenExpired == "Token do captcha expirado durante o crawl."
MsgAllFailed == "Todas as N requests falharam para UF."
MsgBlocked == "Servidor bloqueou a requisicao (0 medicos retornados). Resolva novo captcha: uv run cfm token"

\* a variant in which the token-expired message does not name the captcha
captcha_in_not_expired(msg) == msg \in {MsgTokenMissing, MsgBlocked}

\* "captcha" in str(e).lower()
captcha_in(msg) == msg \in {MsgTokenMissing, MsgTokenExpired, MsgBlocked}

\* what the portal answers for one page (fetch_medicos_page): the records of
\* the page and COUNT, or ([], 0) when dados is empty
fetch_medicos_page(uf, p) ==
    LET n == Max(0, Min(page_size, remoteTotal[uf] - (p - 1) * page_size))
    IN IF n = 0 THEN [page |-> p, n |-> 0, total |-> 0]
       ELSE [page |-> p, n |-> n, total |-> remoteTotal[uf]]
EmptyAnswer(p) == [page |-> p, n |-> 0, total |-> 0]

\* the rows _format_doctor_for_db builds from the records of one page
DocsOfPage(uf, res) ==
    [i \in 1..res.n |-> Doc((res.page - 1) * page_size + i, uf, 1)]

SeqToSet(q) == {q[i] : i \in 1..Len(q)}
RECURSIVE SelectPages(_, _)
SelectPages(q, S) ==
    IF q = <<>> THEN <<>>
    ELSE IF Head(q) \in S THEN <<Head(q)>> \o SelectPages(Tail(q), S)
         ELSE SelectPages(Tail(q), S)

\* results.sort(key=lambda r: r[0])
RECURSIVE SortByPage(_)
SortByPage(S) ==
    IF S = {} THEN <<>>
    ELSE LET m == CHOOSE x \in S : \A y \in S : x.page <= y.page
         IN <<m>> \o SortByPage(S \ {m})

Init ==
    /\ InitDb
    /\ InitIdle
    /\ InitCalls
    /\ captcha_tokens = {1}
    /\ \E sc \in Scenarios :
          /\ page_size = sc.page_size
          /\ batch_size = sc.batch_size
          /\ max_results = sc.max_results
          /\ remoteTotal = sc.total

CrawlFrame == UNCHANGED <<cfgVars, callVars, state_counts, uc>>

Advance(frame) ==
    IF frame.i < Len(frame.pending_states)
    THEN [next |-> "region", re |-> [frame EXCEPT !.i = @ + 1]]
    ELSE [next |-> "final", re |-> frame]

\* cli _run_execution followed by run_execution lines 706-717
CliRun ==
    /\ pc \in {"idle", "returned", "raised"}
    /\ budget.run < MaxRuns
    /\ crawl_executions.status \notin {"completed", "cancelled"}
    /\ is_valid(captcha_tokens)
    /\ budget' = [budget EXCEPT !.run = @ + 1]
    /\ hist' = [hist EXCEPT !.crawled = <<>>, !.yields = <<>>,
                             !.tokenFailed = FALSE, !.late = {},
                             !.wholeFails = 0, !.known = FALSE]
    /\ exc' = ""
    /\ cs' = NoFrame
    /\ fb' = NoFrame
    /\ LET pending_states == get_pending_states(crawl_execution_states)
       IN IF pending_states = <<>>
          THEN /\ crawl_executions' =
                    [status |-> IF check_execution_complete(crawl_execution_states)
                                THEN "completed" ELSE "running"]
               /\ re' = NoFrame
               /\ pc' = "returned"
          ELSE /\ crawl_executions' = [status |-> "running"]
               /\ re' = [active |-> TRUE, pending_states |-> pending_states, i |-> 1,
                         total_medicos |-> 0]
               /\ pc' = "region"
    /\ UNCHANGED <<crawl_execution_states, crawl_pages, doctors, captcha_tokens, remoteTotal>>
    /\ CrawlFrame

\* crawl_state lines 405-445
CrawlStateStart ==
    /\ pc = "region"
    /\ LET uf == re.pending_states[re.i]
           row == crawl_execution_states[uf]
           known == row.total_pages # Null /\ row.total_pages # 0
       IN /\ crawl_execution_states' = [crawl_execution_states EXCEPT ![uf].status = "running"]
          /\ hist' = [hist EXCEPT !.crawled = Append(@, uf), !.yields = <<>>,
                                  !.late = IF hist.tokenFailed THEN @ \cup {"region"} ELSE @,
                                  !.wholeFails = 0, !.known = FALSE]
          /\ IF ~is_valid(captcha_tokens)
             THEN /\ exc' = MsgTokenMissing
                  /\ pc' = "except"
                  /\ cs' = [active |-> TRUE, uf |-> uf]
             ELSE /\ exc' = ""
                  /\ pc' = "loop"
                  /\ cs' = [active |-> TRUE, uf |-> uf,
                            captcha_token |-> get_token(captcha_tokens),
                            total_medicos |-> 0,
                            total_count |-> IF known THEN Max(row.total_records, 0) ELSE 0,
                            total_pages |-> IF known THEN row.total_pages ELSE Null,
                            retries |-> 0,
                            consecutive_empty_batches |-> 0,
                            pending_pages |-> <<>>,
                            results |-> <<>>,
                            batch_medicos |-> <<>>,
                            fetched_page_records |-> <<>>,
                            blocked_page_numbers |-> <<>>,
                            failed_page_numbers |-> {},
                            remaining_count |-> 0,
                            is_complete |-> FALSE]
    /\ UNCHANGED <<crawl_executions, crawl_pages, doctors, captcha_tokens, remoteTotal,
                   re, fb, budget>>
    /\ CrawlFrame

\* crawl_state lines 447-466: token check, pending pages of the next batch
LoopHead ==
    /\ pc = "loop"
    /\ IF ~is_valid(captcha_tokens)
       THEN /\ crawl_execution_states' = [crawl_execution_states EXCEPT ![cs.uf].status = "failed"]
            /\ exc' = MsgTokenExpired
            /\ pc' = "except"
            /\ hist' = [hist EXCEPT !.tokenFailed = TRUE, !.wholeFails = 0]
            /\ UNCHANGED <<cs, fb>>
       ELSE LET pending_pages == get_pending_pages(crawl_pages[cs.uf], batch_size)
            IN /\ UNCHANGED <<crawl_execution_states, exc, hist>>
               /\ IF pending_pages = <<>> /\ cs.total_pages # Null
                  THEN /\ pc' = "finish"
                       /\ UNCHANGED <<cs, fb>>
                  ELSE LET pp == IF pending_pages = <<>> THEN <<1>> ELSE pending_pages
                       IN /\ pc' = "fetch"
                          /\ cs' = [cs EXCEPT !.pending_pages = pp]
                          /\ fb' = [active |-> TRUE, captcha_token |-> cs.captcha_token,
                                    pages |-> pp, successful |-> <<>>,
                                    failed_pages |-> <<>>, retry_attempt |-> 0,
                                    attempts |-> [p \in SeqToSet(pp) |-> 0],
                                    in_flight |-> 0]
    /\ UNCHANGED <<crawl_executions, crawl_pages, doctors, captcha_tokens, remoteTotal,
                   re, budget>>
    /\ CrawlFrame

\* _fetch_batch line 376 and crawl_state lines 477-479, 500, 515: the list
\* is returned and the locals of the call are gone (the requests sent per
\* page and the largest number of requests in flight stay as the observation
\* of the call); a non-empty list resets retries and is sorted by page
Return(successful, attempts, in_flight) ==
    /\ fb' = [active |-> FALSE, successful |-> successful, attempts |-> attempts,
              in_flight |-> in_flight]
    /\ IF successful # <<>>
       THEN /\ cs' = [cs EXCEPT !.results = SortByPage(SeqToSet(successful)), !.retries = 0]
            /\ pc' = "process"
       ELSE /\ cs' = cs
            /\ pc' = "fetched"

\* _fetch_batch lines 319-342: every page of the batch is requested at once
\* (asyncio.gather); F are the requests that raise, E those the portal
\* answers with an empty payload
FetchGather ==
    /\ pc = "fetch"
    /\ \E F \in SUBSET SeqToSet(fb.pages) :
       \E E \in SUBSET (SeqToSet(fb.pages) \ F) :
          LET ok == SelectPages(fb.pages, SeqToSet(fb.pages) \ F)
              successful == [i \in 1..Len(ok) |->
                               IF ok[i] \in E THEN EmptyAnswer(ok[i])
                               ELSE fetch_medicos_page(cs.uf, ok[i])]
              failed_pages == SelectPages(fb.pages, F)
              attempts == [p \in DOMAIN fb.attempts |-> fb.attempts[p] + 1]
              in_flight == Len(fb.pages)
          IN /\ IF failed_pages = <<>>
                THEN Return(successful, attempts, in_flight)
                ELSE /\ fb' = [fb EXCEPT !.successful = successful,
                                         !.failed_pages = failed_pages,
                                         !.retry_attempt = 1,
                                         !.attempts = attempts,
                                         !.in_flight = in_flight]
                     /\ pc' = "retry"
                     /\ cs' = cs
             /\ hist' = [hist EXCEPT !.clean = @ /\ F = {} /\ E = {},
                                     !.late = IF hist.tokenFailed THEN @ \cup {"batch"} ELSE @,
                                     !.wholeFails = IF failed_pages = <<>> /\ successful # <<>>
                                                    THEN 0 ELSE @]
    /\ UNCHANGED <<dbVars, captcha_tokens, remoteTotal, re, exc, budget>>
    /\ CrawlFrame

\* a variant with one more retry pass
retry_passes_done_after_three(retry_attempt) == retry_attempt >= 3

\* _fetch_batch line 345, `for retry_attempt in range(1, 3)`: the pass numbered
\* retry_attempt was the last one
retry_passes_done(retry_attempt) == retry_attempt >= 2

\* _fetch_batch lines 345-376: one retry pass over the pages that failed,
\* one request after the other
FetchRetry ==
    /\ pc = "retry"
    /\ \E F \in SUBSET SeqToSet(fb.failed_pages) :
       \E E \in SUBSET (SeqToSet(fb.failed_pages) \ F) :
          LET ok == SelectPages(fb.failed_pages, SeqToSet(fb.failed_pages) \ F)
              recovered == [i \in 1..Len(ok) |->
                              IF ok[i] \in E THEN EmptyAnswer(ok[i])
                              ELSE fetch_medicos_page(cs.uf, ok[i])]
              still_failed == SelectPages(fb.failed_pages, F)
              attempts == [p \in DOMAIN fb.attempts |->
                             IF p \in SeqToSet(fb.failed_pages)
                             THEN fb.attempts[p] + 1 ELSE fb.attempts[p]]
              in_flight == Max(fb.in_flight, 1)
          IN /\ IF still_failed = <<>> \/ retry_passes_done(fb.retry_attempt)
                THEN Return(fb.successful \o recovered, attempts, in_flight)
                ELSE /\ fb' = [fb EXCEPT !.successful = @ \o recovered,
                                         !.failed_pages = still_failed,
                                         !.retry_attempt = @ + 1,
                                         !.attempts = attempts,
                                         !.in_flight = in_flight]
                     /\ pc' = "retry"
                     /\ cs' = cs
             /\ hist' = [hist EXCEPT !.clean = FALSE,
                                     !.wholeFails =
                                         IF (still_failed = <<>> \/ retry_passes_done(fb.retry_attempt))
                                            /\ fb.successful \o recovered # <<>>
                                         THEN 0 ELSE @]
    /\ UNCHANGED <<dbVars, captcha_tokens, remoteTotal, re, exc, budget>>
    /\ CrawlFrame

\* crawl_state lines 500-513: _fetch_batch has returned an empty list.  It
\* catches every exception of its fetches, so the `except Exception` branch
\* (lines 480-498) is never entered; line 479 has set retries to 0, and line
\* 501 increments it.
AfterFetch ==
    /\ pc = "fetched"
    /\ LET retries == 0 + 1
       IN IF retries >= max_retries
          THEN IF is_valid(captcha_tokens)
               THEN /\ cs' = [cs EXCEPT !.captcha_token = get_token(captcha_tokens),
                                        !.retries = 0]
                    /\ pc' = "loop"
                    /\ UNCHANGED <<crawl_execution_states, exc>>
               ELSE /\ crawl_execution_states' =
                         [crawl_execution_states EXCEPT ![cs.uf].status = "failed"]
                    /\ exc' = MsgAllFailed
                    /\ pc' = "except"
                    /\ cs' = [cs EXCEPT !.retries = retries]
          ELSE /\ cs' = [cs EXCEPT !.retries = retries]
               /\ pc' = "loop"
               /\ UNCHANGED <<crawl_execution_states, exc>>
    /\ fb' = NoFrame
    /\ hist' = [hist EXCEPT !.wholeFails = Min(@ + 1, max_retries - 1)]
    /\ UNCHANGED <<crawl_executions, crawl_pages, doctors, captcha_tokens, remoteTotal,
                   re, budget>>
    /\ CrawlFrame

\* a variant that sizes the ledger only at the first discovery
ProcessPage_first_discovery_only(acc, uf, res) ==
    LET new_total_pages == CeilDiv(res.total, page_size)
        a1 == IF res.total > 0
              THEN IF acc.total_pages = Null
                   THEN [acc EXCEPT !.total_count = res.total,
                                    !.total_pages = new_total_pages,
                                    !.ledger = initialize_pages(@, new_total_pages).ledger,
                                    !.row = [@ EXCEPT !.total_pages = new_total_pages,
                                                      !.total_records = res.total]]
                   ELSE [acc EXCEPT !.total_count = res.total]
              ELSE acc
        record_count == res.n
        a2 == IF record_count = 0 /\ a1.total_count > 0
              THEN [a1 EXCEPT !.blocked_page_numbers = Append(@, res.page)]
              ELSE [a1 EXCEPT !.fetched_page_records = Append(@, <<res.page, record_count>>)]
    IN [a2 EXCEPT !.batch_medicos = @ \o DocsOfPage(uf, res)]

\* crawl_state lines 524-560, one iteration of `for page_num, raw_medicos,
\* page_total_count in results`
ProcessPage(acc, uf, res) ==
    LET new_total_pages == CeilDiv(res.total, page_size)
        a1 == IF res.total > 0
              THEN IF acc.total_pages = Null \/ new_total_pages # acc.total_pages
                   THEN [acc EXCEPT !.total_count = res.total,
                                    !.total_pages = new_total_pages,
                                    !.ledger = initialize_pages(@, new_total_pages).ledger,
                                    !.row = [@ EXCEPT !.total_pages = new_total_pages,
                                                      !.total_records = res.total]]
                   ELSE [acc EXCEPT !.total_count = res.total]
              ELSE acc
        record_count == res.n
        a2 == IF record_count = 0 /\ a1.total_count > 0
              THEN [a1 EXCEPT !.blocked_page_numbers = Append(@, res.page)]
              ELSE [a1 EXCEPT !.fetched_page_records = Append(@, <<res.page, record_count>>)]
    IN [a2 EXCEPT !.batch_medicos = @ \o DocsOfPage(uf, res)]

RECURSIVE ProcessPages(_, _, _)
ProcessPages(acc, uf, results) ==
    IF results = <<>> THEN acc
    ELSE ProcessPages(ProcessPage(acc, uf, Head(results)), uf, Tail(results))

\* crawl_state lines 517-560
ProcessResults ==
    /\ pc = "process"
    /\ LET results == cs.results
           acc0 == [total_count |-> cs.total_count, total_pages |-> cs.total_pages,
                    ledger |-> crawl_pages[cs.uf], row |-> crawl_execution_states[cs.uf],
                    fetched_page_records |-> <<>>, blocked_page_numbers |-> <<>>,
                    batch_medicos |-> <<>>]
           acc == ProcessPages(acc0, cs.uf, results)
       IN /\ cs' = [cs EXCEPT !.results = results,
                              !.total_count = acc.total_count,
                              !.total_pages = acc.total_pages,
                              !.fetched_page_records = acc.fetched_page_records,
                              !.blocked_page_numbers = acc.blocked_page_numbers,
                              !.batch_medicos = acc.batch_medicos,
                              !.failed_page_numbers =
                                  SeqToSet(cs.pending_pages) \ {results[i].page : i \in 1..Len(results)}]
          /\ crawl_pages' = [crawl_pages EXCEPT ![cs.uf] = acc.ledger]
          /\ crawl_execution_states' = [crawl_execution_states EXCEPT ![cs.uf] = acc.row]
    /\ pc' = "mark"
    /\ fb' = NoFrame
    /\ hist' = [hist EXCEPT !.known = cs.total_count > 0]
    /\ UNCHANGED <<crawl_executions, doctors, captcha_tokens, remoteTotal,
                   re, exc, budget>>
    /\ CrawlFrame

\* a variant that leaves the pages as they are
mark_pages_failed_none(pg, pns, error) == pg

RECURSIVE mark_pages_failed(_, _, _)
mark_pages_failed(pg, pns, error) ==
    IF pns = <<>> THEN pg
    ELSE mark_pages_failed(mark_page_failed(pg, Head(pns), error), Tail(pns), error)

MsgNoResult == "Sem resultado no batch"
MsgPossibleBlock == "Servidor retornou 0 medicos (possivel bloqueio)"

\* crawl_state lines 562-577: the ledger is advanced
MarkLedger ==
    /\ pc = "mark"
    /\ LET l1 == mark_pages_fetched_batch(crawl_pages[cs.uf], cs.fetched_page_records)
           l2 == mark_pages_failed(l1, OrderByPageNumber(cs.failed_page_numbers), MsgNoResult)
           l3 == mark_pages_failed(l2, cs.blocked_page_numbers, MsgPossibleBlock)
       IN crawl_pages' = [crawl_pages EXCEPT ![cs.uf] = l3]
    /\ pc' = "detect"
    /\ UNCHANGED <<crawl_executions, crawl_execution_states, doctors, captcha_tokens,
                   remoteTotal, re, cs, fb, exc, hist, budget>>
    /\ CrawlFrame

\* crawl_state lines 579-599: consecutive empty batches
DetectBlock ==
    /\ pc = "detect"
    /\ hist' = [hist EXCEPT !.yields =
                   LET y == Append(@, IF cs.batch_medicos # <<>> THEN "records"
                                      ELSE IF cs.total_count > 0 THEN "empty"
                                      ELSE "nothing")
                   IN IF Len(y) > LogLen THEN Tail(y) ELSE y]
    /\ IF cs.batch_medicos # <<>>
       THEN /\ cs' = [cs EXCEPT !.consecutive_empty_batches = 0]
            /\ pc' = "persist"
            /\ UNCHANGED <<crawl_execution_states, exc>>
       ELSE IF cs.total_count > 0
            THEN /\ cs' = [cs EXCEPT !.consecutive_empty_batches = @ + 1]
                 /\ IF blocked(cs.consecutive_empty_batches + 1)
                    THEN /\ crawl_execution_states' =
                              [crawl_execution_states EXCEPT ![cs.uf].status = "failed"]
                         /\ exc' = MsgBlocked
                         /\ pc' = "except"
                    ELSE /\ pc' = "persist"
                         /\ UNCHANGED <<crawl_execution_states, exc>>
            ELSE /\ pc' = "persist"
                 /\ UNCHANGED <<cs, crawl_execution_states, exc>>
    /\ UNCHANGED <<crawl_executions, crawl_pages, doctors, captcha_tokens, remoteTotal,
                   re, fb, budget>>
    /\ CrawlFrame

\* a variant without the cap
limit_reached_never(total_medicos) == FALSE

\* crawl_state line 656: max_results > 0 and total_medicos >= max_results
limit_reached(total_medicos) == max_results > 0 /\ total_medicos >= max_results

\* crawl_state lines 601-664: progress, the records are stored, loop exit
Persist ==
    /\ pc = "persist"
    /\ LET remaining_count == Len(get_pending_pages(crawl_pages[cs.uf], Null))
           total_medicos == cs.total_medicos + Len(cs.batch_medicos)
       IN /\ doctors' = upsert_doctors_batch(doctors, cs.batch_medicos)
          /\ cs' = [cs EXCEPT !.remaining_count = remaining_count,
                              !.total_medicos = total_medicos]
          /\ pc' = IF limit_reached(total_medicos) THEN "finish"
                   ELSE IF remaining_count = 0 THEN "finish"
                   ELSE "loop"
    /\ UNCHANGED <<crawl_executions, crawl_execution_states, crawl_pages, captcha_tokens,
                   remoteTotal, re, fb, exc, hist, budget>>
    /\ CrawlFrame

\* crawl_state lines 666-684 and run_execution line 736
Finish ==
    /\ pc = "finish"
    /\ LET is_complete == check_state_complete(crawl_pages[cs.uf])
           nxt == Advance([re EXCEPT !.total_medicos = @ + cs.total_medicos])
       IN /\ crawl_execution_states' =
               IF is_complete
               THEN [crawl_execution_states EXCEPT ![cs.uf].status = "completed"]
               ELSE crawl_execution_states
          /\ cs' = [cs EXCEPT !.is_complete = is_complete]
          /\ re' = nxt.re
          /\ pc' = nxt.next
    /\ UNCHANGED <<crawl_executions, crawl_pages, doctors, captcha_tokens, remoteTotal,
                   fb, exc, hist, budget>>
    /\ CrawlFrame

\* run_execution lines 738-745: `except RuntimeError`
ExceptRuntimeError ==
    /\ pc = "except"
    /\ IF captcha_in(exc)
       THEN /\ crawl_executions' = [status |-> "paused"]
            /\ pc' = "raised"
            /\ UNCHANGED re
       ELSE LET nxt == Advance(re)
            IN /\ re' = nxt.re
               /\ pc' = nxt.next
               /\ UNCHANGED crawl_executions
    /\ UNCHANGED <<crawl_execution_states, crawl_pages, doctors, captcha_tokens, remoteTotal,
                   cs, fb, exc, hist, budget>>
    /\ CrawlFrame

\* run_execution lines 751-766
FinalCheck ==
    /\ pc = "final"
    /\ crawl_executions' =
          [status |-> IF check_execution_complete(crawl_execution_states)
                      THEN "completed" ELSE "paused"]
    /\ pc' = "returned"
    /\ UNCHANGED <<crawl_execution_states, crawl_pages, doctors, captcha_tokens, remoteTotal,
                   re, cs, fb, exc, hist, budget>>
    /\ CrawlFrame

Running == pc \notin {"idle", "returned", "raised"}

\* An event of the environment is taken at the positions where the program
\* next reads what the event changes; at every other position it commutes
\* with the program's step.
ReadsExecution == pc \in {"idle", "returned", "raised", "region", "except", "final"}
ReadsTokens == pc \in {"idle", "returned", "raised", "region", "loop", "fetched"}
ReadsPortal == pc \in {"fetch", "retry"}

\* the process is killed: everything in memory is lost, the database stays
Crash ==
    /\ Running
    /\ budget.events < MaxEvents
    /\ budget' = [budget EXCEPT !.events = @ + 1]
    /\ pc' = "idle"
    /\ re' = NoFrame
    /\ cs' = NoFrame
    /\ fb' = NoFrame
    /\ exc' = ""
    /\ hist' = [hist EXCEPT !.clean = FALSE, !.wholeFails = 0, !.known = FALSE]
    /\ UNCHANGED <<dbVars, captcha_tokens, remoteTotal>>
    /\ CrawlFrame

\* cli _cancel_execution -> cancel_execution
CancelExecution ==
    /\ crawl_executions.status \notin {"completed", "cancelled"}
    /\ ReadsExecution
    /\ budget.events < MaxEvents
    /\ budget' = [budget EXCEPT !.events = @ + 1]
    /\ crawl_executions' = [status |-> "cancelled"]
    /\ hist' = [hist EXCEPT !.clean = FALSE]
    /\ UNCHANGED <<crawl_execution_states, crawl_pages, doctors, captcha_tokens, remoteTotal,
                   pc, re, cs, fb, exc>>
    /\ CrawlFrame

\* a token reaches its expires_at
TokenExpire ==
    /\ ReadsTokens
    /\ budget.events < MaxEvents
    /\ budget' = [budget EXCEPT !.events = @ + 1]
    /\ \E t \in captcha_tokens : captcha_tokens' = captcha_tokens \ {t}
    /\ hist' = [hist EXCEPT !.clean = FALSE]
    /\ UNCHANGED <<dbVars, remoteTotal, pc, re, cs, fb, exc>>
    /\ CrawlFrame

\* captcha_db.store_token by `cfm token`; older tokens may have expired by then
StoreToken ==
    /\ ReadsTokens
    /\ budget.events < MaxEvents
    /\ budget' = [budget EXCEPT !.events = @ + 1]
    /\ \E expired \in SUBSET captcha_tokens :
          captcha_tokens' = (captcha_tokens \ expired) \cup {budget.events + 2}
    /\ hist' = [hist EXCEPT !.clean = FALSE]
    /\ UNCHANGED <<dbVars, remoteTotal, pc, re, cs, fb, exc>>
    /\ CrawlFrame

\* the portal's total of the region being fetched grows or shrinks by one
\* page (a change of another region is read only when that region is fetched)
RemoteChange ==
    /\ ReadsPortal
    /\ budget.events < MaxEvents
    /\ budget' = [budget EXCEPT !.events = @ + 1]
    /\ \E r \in {cs.uf}, d \in {page_size, 0 - page_size} :
          /\ remoteTotal[r] + d >= 0
          /\ remoteTotal' = [remoteTotal EXCEPT ![r] = @ + d]
    /\ hist' = [hist EXCEPT !.clean = FALSE]
    /\ UNCHANGED <<dbVars, captcha_tokens, pc, re, cs, fb, exc>>
    /\ CrawlFrame

Next ==
    \/ CliRun
    \/ CrawlStateStart
    \/ LoopHead
    \/ FetchGather
    \/ FetchRetry
    \/ AfterFetch
    \/ ProcessResults
    \/ MarkLedger
    \/ DetectBlock
    \/ Persist
    \/ Finish
    \/ ExceptRuntimeError
    \/ FinalCheck
    \/ Crash
    \/ CancelExecution
    \/ TokenExpire
    \/ StoreToken
    \/ RemoteChange

Spec == Init /\ [][Next]_vars

\* the steps of the running process: once `cfm run` has started, the event
\* loop keeps executing run_execution until it returns or raises
Process ==
    \/ CrawlStateStart
    \/ LoopHead
    \/ FetchGather
    \/ FetchRetry
    \/ AfterFetch
    \/ ProcessResults
    \/ MarkLedger
    \/ DetectBlock
    \/ Persist
    \/ Finish
    \/ ExceptRuntimeError
    \/ FinalCheck

\* `cfm run` alone: the token stays valid, nobody cancels, the portal's
\* totals stay as they are; only the fetches fail as they please
NextRun ==
    \/ CliRun
    \/ Process

SpecFair == Init /\ [][NextRun]_vars /\ WF_vars(Process)

(***************************************************************************)
(* `cfm run` while nothing goes wrong: every request is answered with the  *)
(* records of its page, the token stays valid and the portal's totals stay *)
(* as they are. The run starts on ledgers that are fresh or were left      *)
(* partially fetched by an earlier, interrupted run (a run interrupted     *)
(* between initialize_pages and update_execution_state, crawl_state lines  *)
(* 532-540, leaves a ledger of pending pages and no totals in the row).    *)
(***************************************************************************)
SteadyScenarios ==
    { [page_size |-> 2, batch_size |-> 2, max_results |-> 0, total |-> [AA |-> 5, BB |-> 1]],
      [page_size |-> 2, batch_size |-> 1, max_results |-> 3, total |-> [AA |-> 5, BB |-> 1]] }

\* the ledger an interrupted run leaves behind: the pages of `fetched`
\* marked fetched, those of `failed` marked failed, the others pending
LeftLedger(uf, n, fetched, failed) ==
    LET l0 == initialize_pages(<<>>, n).ledger
        fetched_page_records ==
            [i \in 1..Len(OrderByPageNumber(fetched)) |->
                <<OrderByPageNumber(fetched)[i],
                  fetch_medicos_page(uf, OrderByPageNumber(fetched)[i]).n>>]
        l1 == mark_pages_fetched_batch(l0, fetched_page_records)
    IN mark_pages_failed(l1, OrderByPageNumber(failed), MsgNoResult)

\* the rows stored for the fetched pages
LeftDoctors(fetched) ==
    SetToBag(UNION {UNION {SeqToSet(DocsOfPage(r, fetch_medicos_page(r, p))) :
                               p \in fetched[r]} : r \in Regions})

InitSteady ==
    /\ InitIdle
    /\ InitCalls
    /\ captcha_tokens = {1}
    /\ state_counts = <<>>
    /\ \E sc \in SteadyScenarios :
          /\ page_size = sc.page_size
          /\ batch_size = sc.batch_size
          /\ max_results = sc.max_results
          /\ remoteTotal = sc.total
    /\ \E fresh \in SUBSET Regions :
       \E unknown \in SUBSET (Regions \ fresh) :
       \E status \in [Regions -> [1..CeilDiv(5, 2) -> {"pending", "fetched", "failed"}]] :
          LET n == [r \in Regions |-> CeilDiv(remoteTotal[r], page_size)]
              fetched == [r \in Regions |->
                            IF r \in fresh THEN {}
                            ELSE {p \in 1..n[r] : status[r][p] = "fetched"}]
              failed == [r \in Regions |-> {p \in 1..n[r] : status[r][p] = "failed"}]
          IN /\ \A r \in Regions : \A p \in 1..CeilDiv(5, 2) :
                   (r \in fresh \cup unknown \/ p > n[r]) => status[r][p] = "pending"
             /\ crawl_pages = [r \in Regions |->
                                 IF r \in fresh THEN <<>>
                                 ELSE LeftLedger(r, n[r], fetched[r], failed[r])]
             /\ crawl_execution_states =
                   [r \in Regions |->
                       IF r \in fresh
                       THEN [status |-> "pending", total_pages |-> Null, total_records |-> Null]
                       ELSE IF r \in unknown
                       THEN [status |-> "running", total_pages |-> Null, total_records |-> Null]
                       ELSE [status |-> "running", total_pages |-> n[r],
                             total_records |-> remoteTotal[r]]]
             /\ crawl_executions = [status |-> IF fresh = Regions THEN "pending" ELSE "running"]
             /\ doctors = LeftDoctors(fetched)

\* _fetch_batch lines 319-342 when every request is answered with records
SteadyFetch ==
    /\ FetchGather
    /\ pc' = "process"
    /\ \A i \in DOMAIN cs'.results : cs'.results[i].n > 0

SteadyProcess ==
    \/ CrawlStateStart
    \/ LoopHead
    \/ SteadyFetch
    \/ ProcessResults
    \/ MarkLedger
    \/ DetectBlock
    \/ Persist
    \/ Finish
    \/ FinalCheck

NextSteady ==
    \/ CliRun
    \/ SteadyProcess

SpecSteady == InitSteady /\ [][NextSteady]_vars /\ WF_vars(SteadyProcess)

(***************************************************************************)
(* Counting: the remote total of every region against the stored rows.     *)
(* Two programs do it: `cfm count` (cfm/cli.py _run_count) and             *)
(* CountDoctorsUseCase.execute (cfm_crawler/use_cases/count_doctors.py).   *)
(***************************************************************************)
MaxCount == 2           \* largest total a probe reports

ProbeFailed == -1       \* results[uf] = -1
None == [num |-> 0, den |-> 0]            \* Python None of a percentage
Ratio(n, d) == [num |-> n, den |-> d]     \* the float n / d
UFS == OrderByState(Regions)

\* dict.get(key, default)
Get(dict, key, default) == IF key \in DOMAIN dict THEN dict[key] ELSE default

\* round(db_total / api_total * 100, 1), in tenths of a percent
Round1(db_total, api_total) ==
    LET n == db_total * 1000
        q == n \div api_total
        r == n % api_total
    IN IF 2 * r > api_total \/ (2 * r = api_total /\ q % 2 = 1) THEN q + 1 ELSE q

\* SELECT state, COUNT(*) FROM doctors GROUP BY state
get_db_counts_by_state(tbl) ==
    [s \in {x.state : x \in BagToSet(tbl)} |->
        BagCardinality([x \in {y \in BagToSet(tbl) : y.state = s} |-> tbl[x]])]

\* what the probe of one region can meet: the request raises, the portal
\* answers with a status other than "sucesso", with no row, or with a COUNT
Responses ==
    {[kind |-> k, count |-> 0] : k \in {"exception", "erro", "empty"}}
        \cup {[kind |-> "sucesso", count |-> n] : n \in 0..MaxCount}

\* CfmApiClient.fetch_state_counts, the loop over the responses
fetch_state_counts(responses) ==
    [uf \in DOMAIN responses |->
        IF responses[uf].kind \in {"exception", "erro"} THEN ProbeFailed
        ELSE IF responses[uf].kind = "empty" THEN 0
        ELSE responses[uf].count]

\* the probe of `cfm count`: -1 for a region whose probe failed
fetch_all_state_counts(responses) ==
    [uf \in DOMAIN responses |->
        IF responses[uf].kind \in {"exception", "erro"} THEN ProbeFailed
        ELSE responses[uf].count]

\* CountDoctorsUseCase.execute lines 76-103, the loop over target_ufs
RECURSIVE execute_loop(_, _, _, _)
execute_loop(acc, api_counts, db_counts, ufs) ==
    IF ufs = <<>> THEN acc
    ELSE LET uf == Head(ufs)
             api_count == Get(api_counts, uf, 0)
             db_count == Get(db_counts, uf, 0)
             diff == IF api_count >= 0 THEN api_count - db_count ELSE 0
             percentage == IF api_count < 0 THEN None
                           ELSE IF api_count = 0 THEN None
                           ELSE Ratio(db_count * 100, api_count)
             row == [uf |-> uf, api_count |-> api_count, db_count |-> db_count,
                     diff |-> diff, percentage |-> percentage]
         IN execute_loop([rows |-> Append(acc.rows, row),
                          api_total |-> acc.api_total + (IF api_count > 0 THEN api_count ELSE 0),
                          db_total |-> acc.db_total + db_count,
                          diff_total |-> acc.diff_total + diff],
                         api_counts, db_counts, Tail(ufs))

\* CountDoctorsUseCase.execute
execute(api_counts, db_counts, target_ufs) ==
    LET acc == execute_loop([rows |-> <<>>, api_total |-> 0, db_total |-> 0, diff_total |-> 0],
                            api_counts, db_counts, target_ufs)
    IN [rows |-> acc.rows,
        api_total |-> acc.api_total,
        db_total |-> acc.db_total,
        diff_total |-> acc.diff_total,
        pct_total |-> IF acc.api_total > 0 THEN Ratio(acc.db_total * 100, acc.api_total)
                      ELSE None]

\* _run_count lines 967-984: one row per region
count_rows(api_counts, db_counts, ufs) ==
    [i \in 1..Len(ufs) |->
        LET uf == ufs[i]
            got == Get(api_counts, uf, 0)
            api_total == IF got < 0 THEN 0 ELSE got
            db_total == Get(db_counts, uf, 0)
        IN [state |-> uf, api_total |-> api_total, db_total |-> db_total,
            missing |-> Max(api_total - db_total, 0)]]

\* INSERT INTO state_counts ... ON CONFLICT (state) DO UPDATE
upsert_state_counts_batch(tbl, rows) ==
    [s \in (DOMAIN tbl) \cup {rows[i].state : i \in 1..Len(rows)} |->
        IF \E i \in 1..Len(rows) : rows[i].state = s
        THEN LET i == CHOOSE j \in 1..Len(rows) :
                         rows[j].state = s /\ \A k \in (j+1)..Len(rows) : rows[k].state # s
             IN [api_total |-> rows[i].api_total, db_total |-> rows[i].db_total,
                 missing |-> rows[i].missing]
        ELSE tbl[s]]

RECURSIVE SumField(_, _)
SumField(rows, field) ==
    IF rows = <<>> THEN 0 ELSE Head(rows)[field] + SumField(Tail(rows), field)

\* _print_count_table: the lines of the table, the TOTAL line and the
\* regions listed as errors; pct is in tenths of a percent
print_count_table(rows, api_counts) ==
    LET had_error(uf) == Get(api_counts, uf, 0) < 0
        sum_api == SumField(rows, "api_total")
        sum_db == SumField(rows, "db_total")
    IN [lines |-> [i \in 1..Len(rows) |->
                     [state |-> rows[i].state,
                      had_error |-> had_error(rows[i].state),
                      db_total |-> rows[i].db_total,
                      pct |-> IF rows[i].api_total > 0
                              THEN Round1(rows[i].db_total, rows[i].api_total) ELSE 0]],
        sum_api |-> sum_api,
        sum_db |-> sum_db,
        sum_missing |-> SumField(rows, "missing"),
        total_pct |-> IF sum_api > 0 THEN Round1(sum_db, sum_api) ELSE 0,
        errors |-> {rows[i].state : i \in {j \in 1..Len(rows) : had_error(rows[j].state)}}]

CountFrame ==
    UNCHANGED <<crawl_executions, crawl_execution_states, crawl_pages, doctors,
                captcha_tokens, remoteTotal, cfgVars, procVars, uc, budget>>

\* `cfm count`: _run_count
RunCount ==
    /\ is_valid(captcha_tokens)
    /\ \E responses \in [Regions -> Responses] :
          LET api_counts == fetch_all_state_counts(responses)
              db_counts == get_db_counts_by_state(doctors)
              rows == count_rows(api_counts, db_counts, UFS)
          IN /\ state_counts' = upsert_state_counts_batch(state_counts, rows)
             /\ lastOp' = "_run_count"
             /\ lastArg' = api_counts
             /\ lastRet' = [rows |-> rows, table |-> print_count_table(rows, api_counts)]
             /\ prevArg' = db_counts
    /\ CountFrame

\* `cfm-crawler count`: CountDoctorsUseCase.execute on every region
Execute ==
    /\ is_valid(captcha_tokens)
    /\ \E responses \in [Regions -> Responses] :
          LET db_counts == get_db_counts_by_state(doctors)
              api_counts == fetch_state_counts(responses)
          IN /\ lastOp' = "execute"
             /\ lastArg' = api_counts
             /\ lastRet' = execute(api_counts, db_counts, UFS)
             /\ prevArg' = db_counts
    /\ UNCHANGED state_counts
    /\ CountFrame

\* rows reach the table through the crawler's upsert
StoreDoctors ==
    /\ \E docs \in UpsertBatches : doctors' = upsert_doctors_batch(doctors, docs)
    /\ UNCHANGED <<crawl_executions, crawl_execution_states, crawl_pages, state_counts,
                   captcha_tokens, remoteTotal, cfgVars, procVars, uc, budget, callVars>>

InitCount ==
    /\ InitDb
    /\ InitIdle
    /\ InitCalls
    /\ captcha_tokens = {1}
    /\ remoteTotal = [r \in Regions |-> 0]
    /\ page_size = 1
    /\ batch_size = MaxBatch
    /\ max_results = 0

NextCount ==
    \/ RunCount
    \/ Execute
    \/ StoreDoctors

SpecCount == InitCount /\ [][NextCount]_vars

(***************************************************************************)
(* The crawl of the cfm-crawler program: CrawlAllDoctorsUseCase, which     *)
(* pages through a region from page 1 without a page ledger.               *)
(***************************************************************************)
MaxPageNumber == 5      \* page numbers from here on are not told apart

\* CfmApiClient.fetch_page: the records of the page and COUNT, or ([], 0)
\* when dados is empty
fetch_page(uf, p) ==
    LET n == Max(0, Min(page_size, remoteTotal[uf] - (p - 1) * page_size))
    IN IF n = 0 THEN [page |-> p, n |-> 0, total |-> 0]
       ELSE [page |-> p, n |-> n, total |-> remoteTotal[uf]]

\* _crawl_state line 275: total_pages and current_page > total_pages
finished(total_pages, current_page) ==
    total_pages # Null /\ total_pages # 0 /\ current_page > total_pages

\* _crawl_state lines 161-208, `for p in pages`: F are the pages whose
\* request and retry both raise, E those answered with an empty payload
RECURSIVE fetch_pages(_, _, _, _, _)
fetch_pages(acc, uf, pages, F, E) ==
    IF pages = <<>> THEN acc
    ELSE LET p == Head(pages)
             res == IF p \in E THEN EmptyAnswer(p) ELSE fetch_page(uf, p)
             a1 == IF p \in F THEN acc
                   ELSE [acc EXCEPT
                           !.total_count = IF res.total > 0 THEN res.total ELSE @,
                           !.total_pages = IF res.total > 0
                                           THEN CeilDiv(res.total, page_size) ELSE @,
                           !.batch_medicos = @ \o DocsOfPage(uf, res),
                           !.successful_pages = @ + 1]
         IN fetch_pages(a1, uf, Tail(pages), F, E)

UseCaseFrame ==
    UNCHANGED <<crawl_executions, crawl_execution_states, crawl_pages, state_counts,
                captcha_tokens, remoteTotal, cfgVars, procVars, budget, callVars>>

\* the lists of regions `cfm-crawler crawl` is started with
StateLists == {<<"AA">>, <<"BB">>, <<"AA", "BB">>, <<"BB", "AA">>}

\* execute lines 80-85
UcExecute ==
    /\ uc.pc = "idle"
    /\ \E states \in StateLists :
          uc' = [active |-> TRUE, pc |-> "call", states |-> states, i |-> 0, uf |-> Null,
                 captcha_token |-> Null,
                 total_medicos |-> 0, total_count |-> 0, total_pages |-> Null,
                 consecutive_empty |-> 0, current_page |-> 1,
                 pages |-> <<>>, batch_medicos |-> <<>>, successful_pages |-> 0]
    /\ UNCHANGED doctors
    /\ UseCaseFrame

\* execute lines 87-108 (the next region, or the return) and _crawl_state
\* lines 123-138; every RuntimeError of _crawl_state names the captcha and
\* is raised again by execute
UcCrawlState ==
    /\ uc.pc = "call"
    /\ uc' = IF uc.i = Len(uc.states) THEN [uc EXCEPT !.pc = "done", !.active = FALSE]
             ELSE IF get_token(captcha_tokens) = 0
                  THEN [uc EXCEPT !.pc = "raised", !.active = FALSE]
             ELSE [uc EXCEPT !.pc = "loop", !.i = @ + 1, !.uf = uc.states[uc.i + 1],
                             !.captcha_token = get_token(captcha_tokens),
                             !.total_medicos = 0, !.total_count = 0, !.total_pages = Null,
                             !.consecutive_empty = 0, !.current_page = 1,
                             !.pages = <<>>, !.batch_medicos = <<>>,
                             !.successful_pages = 0]
    /\ UNCHANGED doctors
    /\ UseCaseFrame

\* _crawl_state lines 140-153
UcLoopHead ==
    /\ uc.pc = "loop"
    /\ IF ~is_valid(captcha_tokens)
       THEN uc' = [uc EXCEPT !.pc = "raised", !.active = FALSE]
       ELSE LET pages == IF uc.total_pages # Null
                         THEN [i \in 1..Max(0, Min(batch_size, uc.total_pages - uc.current_page + 1))
                                 |-> uc.current_page + i - 1]
                         ELSE <<uc.current_page>>
            IN uc' = IF pages = <<>> THEN [uc EXCEPT !.pc = "call"]
                     ELSE [uc EXCEPT !.pc = "fetch", !.pages = pages]
    /\ UNCHANGED doctors
    /\ UseCaseFrame

\* _crawl_state lines 155-211
UcFetchBatch ==
    /\ uc.pc = "fetch"
    /\ \E F \in SUBSET SeqToSet(uc.pages) :
       \E E \in SUBSET (SeqToSet(uc.pages) \ F) :
          uc' = [fetch_pages([uc EXCEPT !.batch_medicos = <<>>, !.successful_pages = 0],
                             uc.uf, uc.pages, F, E)
                 EXCEPT !.pc = "detect"]
    /\ UNCHANGED doctors
    /\ UseCaseFrame

\* _crawl_state lines 213-226
UcDetectBlock ==
    /\ uc.pc = "detect"
    /\ uc' = IF uc.batch_medicos # <<>>
             THEN [uc EXCEPT !.consecutive_empty = 0, !.pc = "persist"]
             ELSE IF uc.total_count > 0
                  THEN [uc EXCEPT !.consecutive_empty = @ + 1,
                                  !.pc = IF blocked(uc.consecutive_empty + 1)
                                         THEN "raised" ELSE "persist",
                                  !.active = ~blocked(uc.consecutive_empty + 1)]
                  ELSE [uc EXCEPT !.pc = "persist"]
    /\ UNCHANGED doctors
    /\ UseCaseFrame

\* _crawl_state lines 228-292; current_page is kept below MaxPageNumber,
\* beyond which the portal answers every page of these regions alike
UcPersist ==
    /\ uc.pc = "persist"
    /\ LET total_medicos == uc.total_medicos + Len(uc.batch_medicos)
           last == uc.pages[Len(uc.pages)]
           current_page == Min(last + 1, MaxPageNumber)
       IN /\ doctors' = upsert_doctors_batch(doctors, uc.batch_medicos)
          /\ uc' = [uc EXCEPT !.total_medicos = total_medicos,
                              !.current_page = current_page,
                              !.pc = IF limit_reached(total_medicos) THEN "call"
                                     ELSE IF finished(uc.total_pages, last + 1)
                                          THEN "call"
                                     ELSE "loop"]
    /\ UseCaseFrame

UcProcess ==
    \/ UcCrawlState
    \/ UcLoopHead
    \/ UcFetchBatch
    \/ UcDetectBlock
    \/ UcPersist

NextUseCase ==
    \/ UcExecute
    \/ UcProcess

\* one `cfm-crawler crawl`: the token stays valid and the portal's totals
\* stay as they are; the interpreter keeps executing the call until it
\* returns or raises
SpecUseCase == Init /\ [][NextUseCase]_vars /\ WF_vars(UcProcess)

(***************************************************************************)
(* Properties                                                              *)
(***************************************************************************)
InCrawl == pc \in {"loop", "fetch", "retry", "fetched", "process", "mark", "detect",
                   "persist", "finish", "except"}

StoredKeys == {Key(x) : x \in BagToSet(doctors)}

\* C1: the records of a batch are stored before any of its pages is marked
\* fetched, so at every moment (and after a stop at any point) every page
\* that is `fetched` in the ledger has all its records in doctor storage.
C1_PersistBeforeLedger ==
    \A r \in Regions : \A p \in DOMAIN crawl_pages[r] :
        crawl_pages[r][p].status = "fetched" =>
            \A i \in 1..crawl_pages[r][p].records_count :
                <<(p - 1) * page_size + i, r>> \in StoredKeys

\* C2: when the token check at the head of the loop fails, the region is not
\* completed, run_execution ends by pausing the execution (never failing
\* it), and neither a batch nor a later region is started in that run.
C2_TokenExpiryPauses ==
    /\ [](crawl_executions.status # "failed")
    /\ []((pc = "raised" /\ exc = MsgTokenExpired) =>
            /\ crawl_execution_states[cs.uf].status # "completed"
            /\ hist.late = {}
            /\ hist.crawled[Len(hist.crawled)] = cs.uf)
    /\ [][(pc = "except" /\ exc = MsgTokenExpired /\ pc' \notin {"except", "idle"}) =>
            (pc' = "raised" /\ crawl_executions'.status = "paused")]_vars

C2_Witness ==
    /\ pc = "raised"
    /\ exc = MsgTokenExpired
    /\ Len(hist.yields) >= 1
    /\ crawl_executions.status = "paused"
    /\ Len(hist.crawled) < Len(re.pending_states)

\* C3: after crawl_state aborts a region as blocked, the region is `failed`
\* and run_execution goes on with the next region instead of pausing the
\* execution and stopping.
C3_BlockedContinues ==
    (exc = MsgBlocked /\ pc # "except") =>
        /\ pc \in {"region", "final", "returned"}
        /\ crawl_execution_states[cs.uf].status = "failed"

RECURSIVE TrailingEmpty(_)
TrailingEmpty(log) ==
    IF log = <<>> \/ log[Len(log)] # "empty" THEN 0
    ELSE 1 + TrailingEmpty(SubSeq(log, 1, Len(log) - 1))

\* C4: with a known nonzero total, the blocked condition is raised at the
\* end of exactly the second consecutive processed batch without records
\* (not the first, and no third is issued), and a batch with at least one
\* record resets the count of consecutive empty batches.
C4_BlockedAtSecondEmptyBatch ==
    (InCrawl /\ pc # "detect" /\ ~(pc = "except" /\ exc = MsgTokenMissing)) =>
        /\ (pc = "except" /\ exc = MsgBlocked) => TrailingEmpty(hist.yields) = 2
        /\ ~(pc = "except" /\ exc = MsgBlocked) => TrailingEmpty(hist.yields) < 2
        /\ cs.consecutive_empty_batches = TrailingEmpty(hist.yields)

C4_Witness ==
    /\ pc = "except"
    /\ exc = MsgBlocked
    /\ hist.yields = <<"records", "empty", "empty">>

\* C5: a clean first run on regions AA (25 records) and BB (0 records) with
\* page_size 10 and batch_size 2 ends with both regions and the execution
\* `completed` and 25 records stored.
C5_EndToEnd ==
    (/\ pc = "returned"
     /\ hist.clean
     /\ budget.run = 1
     /\ page_size = 10
     /\ batch_size = 2
     /\ remoteTotal["AA"] = 25
     /\ remoteTotal["BB"] = 0) =>
        /\ crawl_execution_states["AA"].status = "completed"
        /\ crawl_execution_states["BB"].status = "completed"
        /\ crawl_executions.status = "completed"
        /\ BagCardinality(doctors) = 25

\* C6: upserting a batch whose key set was upserted by the previous call
\* leaves the number of stored rows unchanged, and after any upsert every
\* key of the batch is stored once, with the fields of its most recent row.
C6_UpsertIdempotent ==
    [][LET docs == lastArg'
       IN /\ \A k \in KeySet(docs) :
                /\ RowsOfKey(doctors', k) = 1
                /\ LastRow(docs, k) \in BagToSet(doctors')
          /\ (lastOp = "upsert_doctors_batch" /\ KeySet(lastArg) = KeySet(docs)) =>
                BagCardinality(doctors') = BagCardinality(doctors)]_vars

C6_Witness ==
    /\ lastOp = "upsert_doctors_batch"
    /\ prevArg = KeySet(lastArg)
    /\ Cardinality(prevArg) = 2
    /\ BagCardinality(doctors) = 2
    /\ \A i \in 1..Len(lastArg) : lastArg[i].name = 2

InitializeKeepsRows ==
    LET n == lastArg'
    IN /\ \A p \in DOMAIN Ledger : p \in DOMAIN Ledger' /\ Ledger'[p] = Ledger[p]
       /\ DOMAIN Ledger' = (DOMAIN Ledger) \cup (1..n)
       /\ \A p \in (DOMAIN Ledger') \ (DOMAIN Ledger) :
             Ledger'[p] = PageRow("pending", Null, "NULL")
       /\ lastRet' = Cardinality((DOMAIN Ledger') \ (DOMAIN Ledger))
       /\ (lastOp = "initialize_pages" /\ lastArg = n) => lastRet' = 0

\* C7 as stated: initialize_pages(state, n) leaves every existing row
\* unchanged, creates exactly the missing page numbers of 1..n as pending
\* and returns their number: 0 on a second call with the same n, and m - n
\* when called with m > n after a call with n.
C7_InitializeReturnsDifference ==
    [][lastOp' = "initialize_pages" =>
         /\ InitializeKeepsRows
         /\ (lastOp = "initialize_pages" /\ lastArg' > lastArg) =>
                lastRet' = lastArg' - lastArg]_vars

\* C7 amended: ... and m - n when called with m > n after a call with n,
\* provided the ledger holds no page numbered above n.
C7_InitializeIdempotent ==
    [][lastOp' = "initialize_pages" =>
         /\ InitializeKeepsRows
         /\ (/\ lastOp = "initialize_pages"
             /\ lastArg' > lastArg
             /\ \A p \in DOMAIN Ledger : p <= lastArg) =>
                lastRet' = lastArg' - lastArg]_vars

C7_Witness ==
    /\ lastOp = "initialize_pages"
    /\ prevArg = 1
    /\ lastArg = 3
    /\ lastRet = 2
    /\ Ledger[1].status = "fetched"

\* C8: get_pending_pages returns exactly the pending and failed page numbers
\* of the ledger, strictly ascending, cut to the first `limit` of them when
\* a limit is given.
C8_PendingPages ==
    lastOp = "get_pending_pages" =>
        LET P == {p \in DOMAIN Ledger : Ledger[p].status \in {"pending", "failed"}}
            R == SeqToSet(lastRet)
        IN /\ \A i \in 1..(Len(lastRet) - 1) : lastRet[i] < lastRet[i + 1]
           /\ R \subseteq P
           /\ lastArg = Null => R = P
           /\ lastArg # Null =>
                /\ Len(lastRet) = Min(lastArg, Cardinality(P))
                /\ \A p \in P \ R : \A q \in R : q < p

C8_Witness ==
    /\ lastOp = "get_pending_pages"
    /\ lastArg = 1
    /\ DOMAIN Ledger = 1..3
    /\ Ledger[1].status = "fetched"
    /\ Ledger[2].status = "failed"
    /\ Ledger[3].status = "pending"
    /\ lastRet = <<2>>

\* C9: the completeness check is true iff the ledger of the region has at
\* least one page and all its pages are fetched; when crawl_state leaves its
\* loop the state becomes `completed` if the check is true and keeps its
\* status otherwise.
C9_CompletenessCheck ==
    [][(pc = "finish" /\ pc' \notin {"finish", "idle"}) =>
         LET pg == crawl_pages[cs.uf]
             all == pg # <<>> /\ \A p \in DOMAIN pg : pg[p].status = "fetched"
         IN /\ cs'.is_complete = all
            /\ all => crawl_execution_states'[cs.uf].status = "completed"
            /\ ~all => crawl_execution_states'[cs.uf].status =
                          crawl_execution_states[cs.uf].status]_vars

C9_Witness ==
    /\ pc = "final"
    /\ ~cs.is_complete
    /\ crawl_pages[cs.uf] = <<>>
    /\ crawl_execution_states[cs.uf].status = "running"
    /\ crawl_execution_states["AA"].status = "completed"

\* C10: when run_execution returns normally the execution is `completed` if
\* every state is completed or skipped and `paused` otherwise, never
\* `running`.
C10_ReturnStatus ==
    [][(pc' = "returned" /\ (pc # "returned" \/ budget'.run # budget.run)) =>
         crawl_executions'.status =
            IF \A r \in Regions : crawl_execution_states'[r].status \in {"completed", "skipped"}
            THEN "completed" ELSE "paused"]_vars

C10_Witness ==
    /\ pc = "returned"
    /\ ~re.active
    /\ budget.run = 2
    /\ crawl_executions.status = "completed"

\* the answers of the batch in hand that carry a total
Reports == {x \in SeqToSet(cs.results) : x.total > 0}
PagesOf(total) == (total + page_size - 1) \div page_size
LastReport == CHOOSE x \in Reports : \A y \in Reports : y.page <= x.page

\* C11: when the pages of a batch report a total whose page count is larger
\* than the recorded total_pages, crawl_state records the new total_pages
\* and total_records, adds exactly the missing tail pages as `pending`, and
\* leaves every existing ledger row as it was.
C11_LedgerGrows ==
    [][(pc = "process" /\ pc' = "mark") =>
         LET old == crawl_pages[cs.uf]
             new == crawl_pages'[cs.uf]
             row == crawl_execution_states'[cs.uf]
             most == CHOOSE n \in {PagesOf(x.total) : x \in Reports} :
                        \A x \in Reports : PagesOf(x.total) <= n
         IN /\ \A p \in DOMAIN old : p \in DOMAIN new /\ new[p] = old[p]
            /\ (Reports # {} /\ cs.total_pages # Null) =>
                  /\ most > cs.total_pages =>
                        (DOMAIN new) \ (DOMAIN old) = (1..most) \ (DOMAIN old)
                  /\ \A p \in (DOMAIN new) \ (DOMAIN old) :
                        new[p] = PageRow("pending", Null, "NULL")
                  /\ PagesOf(LastReport.total) > cs.total_pages =>
                        /\ row.total_pages = PagesOf(LastReport.total)
                        /\ row.total_records = LastReport.total
                        /\ cs'.total_pages = row.total_pages
                        /\ (1..row.total_pages) \subseteq DOMAIN new]_vars

C11_Witness ==
    /\ pc = "mark"
    /\ cs.uf = "AA"
    /\ hist.known
    /\ \E i \in 1..Len(cs.results) : cs.results[i].total = 35
    /\ crawl_execution_states["AA"].total_pages = 4
    /\ crawl_execution_states["AA"].total_records = 35
    /\ DOMAIN crawl_pages["AA"] = 1..4
    /\ crawl_pages["AA"][1].status = "fetched"
    /\ crawl_pages["AA"][4] = PageRow("pending", Null, "NULL")

\* C12: `completed` and `cancelled` are terminal: once the execution has
\* one of these statuses no step (start, pause, complete, cancel, or a
\* run_execution that was in progress when the cancel happened) changes it.
C12_TerminalExecutionStatus ==
    [][crawl_executions.status \in {"completed", "cancelled"} =>
         crawl_executions'.status = crawl_executions.status]_vars

\* C13: after the execution has been cancelled while run_execution iterates
\* its regions, no crawl of a region is started.
C13_NoRegionAfterCancel ==
    [][crawl_executions.status = "cancelled" => hist'.crawled = hist.crawled]_vars

\* C14 as stated: once the state of a region is `completed`, `failed` or
\* `skipped`, no step of a run changes its status; in particular a `failed`
\* state is not set back to `running` by a later run_execution.
C14_TerminalStateStatus ==
    [][\A r \in Regions :
          crawl_execution_states[r].status \in {"completed", "failed", "skipped"} =>
              crawl_execution_states'[r].status = crawl_execution_states[r].status]_vars

\* C14 amended: once the state of a region is `completed` or `skipped`, no
\* step of a run changes its status (a `failed` state stays among the
\* pending states and is set to `running` again by the next run).
C14_FinishedStateKept ==
    [][\A r \in Regions :
          crawl_execution_states[r].status \in {"completed", "skipped"} =>
              crawl_execution_states'[r].status = crawl_execution_states[r].status]_vars

C14_Witness ==
    /\ budget.run = 2
    /\ pc = "loop"
    /\ cs.uf = "BB"
    /\ hist.crawled = <<"BB">>
    /\ re.pending_states = <<"BB">>
    /\ crawl_execution_states["AA"].status = "completed"
    /\ crawl_execution_states["BB"].status = "running"

\* what the last count was given and what a count restricted to the regions
\* whose probe succeeded adds up to
ProbeOk == {uf \in Regions : Get(lastArg, uf, 0) >= 0}
RECURSIVE SumOver(_, _)
SumOver(counts, S) ==
    IF S = {} THEN 0
    ELSE LET uf == CHOOSE x \in S : TRUE
         IN Get(counts, uf, 0) + SumOver(counts, S \ {uf})

\* C15: in every row a count produces, the difference is
\* max(remote_total - local_total, 0), hence never negative, also when more
\* rows are stored than the portal reports.
C15_DifferenceClamped ==
    /\ lastOp = "_run_count" =>
          \A i \in 1..Len(lastRet.rows) :
             LET row == lastRet.rows[i]
             IN /\ row.missing = Max(Get(lastArg, row.state, 0) - Get(prevArg, row.state, 0), 0)
                /\ row.missing >= 0
    /\ lastOp = "execute" =>
          \A i \in 1..Len(lastRet.rows) :
             LET row == lastRet.rows[i]
             IN /\ row.diff = Max(row.api_count - row.db_count, 0)
                /\ row.diff >= 0

\* C16: a region whose probe failed carries -1, is told apart from a region
\* whose total is 0, and neither its remote nor its stored total enters the
\* overall stored/remote percentage.
C16_FailedProbeExcluded ==
    LET api == SumOver(lastArg, ProbeOk)
        db == SumOver(prevArg, ProbeOk)
    IN /\ lastOp = "_run_count" =>
          /\ lastRet.table.errors = Regions \ ProbeOk
          /\ \A i \in 1..Len(lastRet.table.lines) :
                lastRet.table.lines[i].had_error <=> lastRet.table.lines[i].state \notin ProbeOk
          /\ lastRet.table.total_pct = IF api > 0 THEN Round1(db, api) ELSE 0
       /\ lastOp = "execute" =>
          /\ \A i \in 1..Len(lastRet.rows) :
                lastRet.rows[i].api_count = ProbeFailed <=> lastRet.rows[i].uf \notin ProbeOk
          /\ IF api > 0
             THEN lastRet.pct_total.num * api = db * 100 * lastRet.pct_total.den
                  /\ lastRet.pct_total.den > 0
             ELSE lastRet.pct_total = None

\* the whole batch in hand came back without any result, for at least the
\* third consecutive time in this call of crawl_state
RetriesExhausted ==
    /\ pc = "fetched"
    /\ fb.successful = <<>>
    /\ hist.wholeFails = max_retries - 1

\* C17: when the whole batch has failed on 3 consecutive attempts and the
\* token is still valid, crawl_state aborts the region as a fatal failure
\* (state `failed`, error raised) and starts no further round.
C17_FatalAfterRetries ==
    [][(RetriesExhausted /\ is_valid(captcha_tokens) /\ pc' \notin {"fetched", "idle"}) =>
         /\ pc' = "except"
         /\ crawl_execution_states'[cs.uf].status = "failed"]_vars

InLoop == pc \in {"loop", "fetch", "retry", "fetched", "process", "mark", "detect", "persist"}

\* C19: every call of crawl_state terminates: from any position inside its
\* loop the call eventually leaves the loop (returns, raises, or the process
\* is stopped), whatever pattern of fetch failures it meets.
C19_CrawlStateTerminates == InLoop ~> ~InLoop

\* C20: a page that was fetched successfully with zero records while a
\* nonzero total is known when it is processed (pages are processed in
\* ascending order) is marked `failed` with the possible-block reason, never
\* `fetched`, and get_pending_pages returns it again.
C20_EmptyPageFailed ==
    /\ \A r \in Regions : \A p \in DOMAIN crawl_pages[r] :
          crawl_pages[r][p].status = "fetched" => crawl_pages[r][p].records_count > 0
    /\ pc = "detect" =>
          \A i \in 1..Len(cs.results) :
             LET res == cs.results[i]
                 ledger == crawl_pages[cs.uf]
                 known == \/ hist.known
                          \/ \E j \in 1..Len(cs.results) :
                                cs.results[j].page <= res.page /\ cs.results[j].total > 0
             IN (res.n = 0 /\ known) =>
                   /\ res.page \in DOMAIN ledger
                   /\ ledger[res.page].status = "failed"
                   /\ ledger[res.page].error = MsgPossibleBlock
                   /\ res.page \in SeqToSet(get_pending_pages(ledger, Null))

C20_Witness ==
    /\ pc = "detect"
    /\ hist.known
    /\ Len(cs.results) = 2
    /\ cs.results[1].n > 0
    /\ cs.results[2].n = 0
    /\ crawl_pages[cs.uf][cs.results[1].page].status = "fetched"
    /\ crawl_pages[cs.uf][cs.results[2].page].status = "failed"
    /\ crawl_pages[cs.uf][cs.results[2].page].error = MsgPossibleBlock

\* C21: whenever the total_pages of a region is known, every page of its
\* ledger is numbered within 1..total_pages, also after a later fetch has
\* reported a smaller remote total than the one the pages were created for.
C21_PagesWithinTotal ==
    \A r \in Regions :
        crawl_execution_states[r].total_pages # Null =>
            \A p \in DOMAIN crawl_pages[r] :
                1 <= p /\ p <= crawl_execution_states[r].total_pages

\* a batch has been processed in which some pages got no answer after the
\* retries of _fetch_batch while others were answered
PartialFailure == pc \in {"detect", "persist"} /\ cs.failed_page_numbers # {}

\* the ledger after such a batch: unanswered pages are `failed`, pages that
\* were answered with records are `fetched`
PartialFailureMarked ==
    LET ledger == crawl_pages[cs.uf]
    IN /\ \A p \in cs.failed_page_numbers :
             /\ p \in DOMAIN ledger
             /\ ledger[p].status = "failed"
             /\ ledger[p].error = MsgNoResult
       /\ \A i \in 1..Len(cs.results) :
             cs.results[i].n > 0 =>
                /\ cs.results[i].page \in DOMAIN ledger
                /\ ledger[cs.results[i].page] = PageRow("fetched", cs.results[i].n, "NULL")

\* the call goes on after such a batch: no error is raised, the state keeps
\* its status, and control returns to the head of the loop (the max_results
\* cap of the test mode aside)
PartialFailureGoesOn ==
    /\ crawl_execution_states'[cs.uf].status = crawl_execution_states[cs.uf].status
    /\ pc = "detect" => pc' \in {"detect", "persist", "idle"}
    /\ pc = "persist" =>
          \/ pc' \in {"persist", "loop", "idle"}
          \/ pc' = "finish" /\ max_results > 0 /\ cs'.total_medicos >= max_results

\* the next batch that is issued contains the pages that got no answer
FailedOfferedAgain ==
    (pc = "loop" /\ pc' = "fetch") =>
        cs.failed_page_numbers \subseteq SeqToSet(cs'.pending_pages)

\* C22 as stated: when some but not all pages of a batch still fail after
\* the retries of _fetch_batch, crawl_state does not abort the region: the
\* failed pages are marked `failed`, the pages answered with records are
\* marked `fetched`, the loop continues, and the failed pages are offered
\* again by get_pending_pages on a later iteration.
C22_PartialFailureContinues ==
    [][/\ PartialFailure => (PartialFailureMarked /\ PartialFailureGoesOn)
       /\ FailedOfferedAgain]_vars

\* C22 amended: ... provided at least one page of the batch was answered
\* with records; a batch whose answered pages are all empty counts as an
\* empty batch, and the second consecutive one aborts the region as blocked.
C22_PartialFailureWithRecords ==
    [][/\ PartialFailure => PartialFailureMarked
       /\ (PartialFailure /\ cs.batch_medicos # <<>>) => PartialFailureGoesOn
       /\ FailedOfferedAgain]_vars

C22_Witness ==
    /\ pc = "fetch"
    /\ cs.failed_page_numbers = {2}
    /\ cs.pending_pages = <<2>>
    /\ cs.uf = "AA"
    /\ DOMAIN crawl_pages["AA"] = 1..3
    /\ crawl_pages["AA"][2].status = "failed"
    /\ crawl_pages["AA"][3].status = "fetched"
    /\ crawl_execution_states["AA"].status = "running"

\* the pages the call of _fetch_batch in hand was asked for, and those in
\* the list it has built so far
Requested == SeqToSet(cs.pending_pages)
Answered == {fb.successful[i].page : i \in 1..Len(fb.successful)}
InFetchBatch == pc = "retry"
FetchBatchReturned == pc \in {"fetched", "process"}

\* C23: _fetch_batch requests each page at most 3 times (the concurrent pass
\* and at most 2 retry passes), never again after the page was answered,
\* returns each requested page at most once, leaves out exactly the pages
\* whose 3 requests all failed, and never has more requests in flight than
\* pages requested (at most batch_size).
C23_FetchBatchBounded ==
    /\ []((InFetchBatch \/ FetchBatchReturned) =>
            /\ DOMAIN fb.attempts = Requested
            /\ \A p \in Requested : 1 <= fb.attempts[p] /\ fb.attempts[p] <= 3
            /\ Answered \subseteq Requested
            /\ Len(fb.successful) = Cardinality(Answered)
            /\ fb.in_flight <= Cardinality(Requested)
            /\ Cardinality(Requested) <= batch_size)
    /\ [](FetchBatchReturned =>
            Requested \ Answered = {p \in Requested : fb.attempts[p] = 3} \ Answered)
    /\ [][(InFetchBatch /\ pc' \in {"retry", "fetched", "process"}) =>
            /\ \A p \in Answered : fb'.attempts[p] = fb.attempts[p]
            /\ \A p \in Requested : fb'.attempts[p] <= fb.attempts[p] + 1
            /\ \A i \in 1..Len(fb.successful) : fb'.successful[i] = fb.successful[i]]_vars

C23_Witness ==
    /\ pc = "process"
    /\ cs.pending_pages = <<2, 3>>
    /\ Answered = {3}
    /\ fb.attempts[2] = 3
    /\ fb.attempts[3] = 2
    /\ fb.in_flight = 2

\* a batch is handed to _fetch_batch by this step
BatchIssued == pc # "fetch" /\ pc' = "fetch"

\* C24: crawl_state issues a batch only in a step that starts at the head of
\* the loop with an unexpired token in the store, i.e. after a validity check
\* that came after the end of the previous batch; this covers the round after
\* a batch that failed as a whole and the discovery fetch of page 1.
C24_CheckedBeforeBatch ==
    [][BatchIssued =>
         /\ pc = "loop"
         /\ captcha_tokens # {}
         /\ ~fb.active
         /\ fb'.active
         /\ \A p \in DOMAIN fb'.attempts : fb'.attempts[p] = 0]_vars

C24_Witness ==
    /\ pc = "fetch"
    /\ fb.pages = <<1>>
    /\ cs.total_pages = Null
    /\ hist.wholeFails = 2
    /\ captcha_tokens = {2}

\* the records stored by this call of crawl_state have reached the cap
CapReached == max_results > 0 /\ cs.total_medicos >= max_results

\* once the cap is reached no further batch is issued: the loop is left
CapEndsLoop ==
    (/\ pc = "persist"
     /\ pc' \notin {"persist", "idle"}
     /\ max_results > 0
     /\ cs'.total_medicos >= max_results) => pc' = "finish"

\* C25 as stated: when max_results > 0 and the records processed in this
\* call reach max_results, crawl_state issues no further batch and ends the
\* call without marking the region complete.
C25_CapLeavesIncomplete ==
    [][/\ CapEndsLoop
       /\ (pc = "finish" /\ CapReached /\ pc' \in {"region", "final"}) =>
             crawl_execution_states'[cs.uf].status # "completed"]_vars

\* C25 amended: ... and ends the call through the completeness check of
\* every normal exit: the region keeps its status while a page of its ledger
\* is pending or failed, and is marked `completed` when the batch that
\* reached the cap also fetched the last page.
C25_CapEndsThroughCheck ==
    [][/\ CapEndsLoop
       /\ (pc = "finish" /\ CapReached /\ pc' \in {"region", "final"}) =>
             LET pg == crawl_pages[cs.uf]
                 all == pg # <<>> /\ \A p \in DOMAIN pg : pg[p].status = "fetched"
             IN crawl_execution_states'[cs.uf].status =
                   IF all THEN "completed" ELSE crawl_execution_states[cs.uf].status]_vars

C25_Witness ==
    /\ pc = "region"
    /\ cs.active
    /\ cs.uf = "AA"
    /\ max_results = 3
    /\ cs.total_medicos = 4
    /\ ~cs.is_complete
    /\ DOMAIN crawl_pages["AA"] = 1..3
    /\ crawl_pages["AA"][3].status = "pending"
    /\ crawl_execution_states["AA"].status = "running"

\* C26: the token a batch is issued with is a token that is unexpired in
\* the token store at the validity check of that batch; when the token
\* captured at the start of the region has expired and a newer one has been
\* stored, the batch carries the newer one.
C26_BatchTokenValid ==
    [][BatchIssued => fb'.captcha_token \in captcha_tokens]_vars

FetchedPages(r) == {p \in DOMAIN crawl_pages[r] : crawl_pages[r][p].status = "fetched"}

C28_CompletedMeansAllFetched ==
    \A r \in Regions :
        crawl_execution_states[r].status = "completed" =>
            /\ crawl_pages[r] # <<>>
            /\ \A p \in DOMAIN crawl_pages[r] : crawl_pages[r][p].status = "fetched"

C28_Witness ==
    /\ crawl_execution_states["AA"].status = "completed"
    /\ budget.run = 2
    /\ budget.events = 1
    /\ DOMAIN crawl_pages["AA"] = 1..4
    /\ \A p \in 1..4 : crawl_pages["AA"][p].status = "fetched"
    /\ crawl_execution_states["AA"].total_pages = 4

UcInLoop == uc.pc \in {"loop", "fetch", "detect", "persist"}

\* C29: CrawlAllDoctorsUseCase._crawl_state terminates for a region whose
\* remote total is zero while the token stays valid: once page 1 has come
\* back with no records and total 0 the call returns (or raises) instead of
\* requesting page after page.
C29_ZeroTotalTerminates ==
    (UcInLoop /\ remoteTotal[uc.uf] = 0) ~> ~UcInLoop

LedgerStatus(r, p) ==
    IF p \in DOMAIN crawl_pages[r] THEN crawl_pages[r][p].status ELSE "none"

\* what one step of a call does to the pages: a batch is made of pages that
\* are not fetched, each of its pages is requested once, the ledger step
\* marks every page of the batch fetched, and nothing else marks a page
\* fetched
FetchedOnce ==
    /\ BatchIssued => \A p \in SeqToSet(fb'.pages) : LedgerStatus(cs.uf, p) # "fetched"
    /\ (pc = "fetch" /\ pc' = "process") =>
          \A p \in SeqToSet(fb.pages) : fb'.attempts[p] = 1
    /\ pc = "mark" =>
          \A p \in SeqToSet(cs.pending_pages) : LedgerStatus(cs.uf, p)' = "fetched"
    /\ \A r \in Regions : \A p \in DOMAIN crawl_pages'[r] :
          (LedgerStatus(r, p)' = "fetched" /\ LedgerStatus(r, p) # "fetched") =>
              pc = "mark" /\ r = cs.uf /\ p \in SeqToSet(cs.pending_pages)

CallReturns == pc = "finish"

CappedEarly ==
    /\ limit_reached(cs.total_medicos)
    /\ get_pending_pages(crawl_pages[cs.uf], Null) # <<>>

\* C30 (as stated): with a valid token, a constant remote total > 0 and every
\* request answered with records, a crawl_state call started on a fresh or
\* partially fetched ledger comes to its end, marks the region `completed`
\* there, and on the way fetches each page that was not fetched exactly once.
C30_SteadyCallCompletes ==
    /\ [][CallReturns => crawl_execution_states'[cs.uf].status = "completed"]_vars
    /\ [][FetchedOnce]_vars
    /\ (InCrawl ~> ~InCrawl)

\* C30 (amended): under the same conditions the call comes to its end and
\* marks the region `completed` unless the max_results cap ended the loop
\* while pages were still pending; every page it requests was not fetched
\* before, is requested once and is marked fetched.
C30_SteadyCallCompletesUnlessCapped ==
    /\ [][CallReturns =>
            \/ crawl_execution_states'[cs.uf].status = "completed"
            \/ CappedEarly]_vars
    /\ [][FetchedOnce]_vars
    /\ (InCrawl ~> ~InCrawl)

\* a call on region AA that found page 1 fetched, fetched pages 2 and 3
\* (3 records) and marked the region completed
C30_Witness ==
    /\ pc \in {"region", "final"}
    /\ cs.active
    /\ cs.uf = "AA"
    /\ cs.is_complete
    /\ cs.total_medicos = 3
    /\ max_results = 0
    /\ crawl_execution_states["AA"].status = "completed"
    /\ \A p \in 1..3 : LedgerStatus("AA", p) = "fetched"

====
